---- MODULE Spec2Model ----
(***************************************************************************)
(* Hetzner DynDNS updater: reconciliation of A / AAAA records against the  *)
(* freshly resolved public address.  Two programs of the repository are    *)
(* modelled side by side, selected by `variant`:                           *)
(*   "main"  - src/main.go: one (zone, record) target, existence check,    *)
(*             update whenever the record exists;                          *)
(*   "zones" - src/unnamed/part_005: Zones map of targets, the current     *)
(*             value is read and compared before an update.                *)
(* (src/unnamed/part_003 is "zones" restricted to one target.)             *)
(* Every HTTP request is one step; the peer's answer is the step's input.  *)
(***************************************************************************)
EXTENDS Integers, Sequences, FiniteSets, TLC

(***************************************************************************)
(* Text.  A Go string is modelled as the sequence of its characters.       *)
(***************************************************************************)
S_v4a    == <<"2","0","3",".","0",".","1","1","3",".","5">>
S_v4b    == <<"2","0","3",".","0",".","1","1","3",".","9">>
S_v4lz   == <<"2","0","3",".","0","0","0",".","1","1","3",".","0","0","5">>
S_v4nl   == <<"2","0","3",".","0",".","1","1","3",".","5","\n">>
S_v6a    == <<"2","0","0","1",":","d","b","8",":",":","1">>
S_v6full == <<"2","0","0","1",":","d","b","8",":","0",":","0",":","0",":","0",":","0",":","1">>
S_v6b    == <<"2","0","0","1",":","d","b","8",":",":","2">>
S_mapped == <<":",":","f","f","f","f",":","2","0","3",".","0",".","1","1","3",".","5">>
S_text   == <<"n","/","a">>
S_empty  == <<>>

Digits == {"0","1","2","3","4","5","6","7","8","9"}

HexVal(c) ==
    CASE c = "0" -> 0  [] c = "1" -> 1  [] c = "2" -> 2  [] c = "3" -> 3
      [] c = "4" -> 4  [] c = "5" -> 5  [] c = "6" -> 6  [] c = "7" -> 7
      [] c = "8" -> 8  [] c = "9" -> 9
      [] c \in {"a","A"} -> 10 [] c \in {"b","B"} -> 11 [] c \in {"c","C"} -> 12
      [] c \in {"d","D"} -> 13 [] c \in {"e","E"} -> 14 [] c \in {"f","F"} -> 15
      [] OTHER -> -1

IndexOf(s, cs) ==
    IF \E i \in 1..Len(s) : s[i] \in cs
    THEN CHOOSE i \in 1..Len(s) : s[i] \in cs /\ \A j \in 1..(i-1) : s[j] \notin cs
    ELSE 0

(***************************************************************************)
(* net.ParseIP (Go >= 1.21, netip.ParseAddr underneath).  An IP is its     *)
(* 16-byte form; nil is the empty sequence.                                *)
(***************************************************************************)
NilIP == <<>>

\* netip.parseIPv4Fields: the four octets, or <<>> on a syntax error.
RECURSIVE ParseIPv4Scan(_, _, _, _, _)
ParseIPv4Scan(s, i, val, digLen, fields) ==
    IF i > Len(s)
    THEN IF Len(fields) < 3 THEN <<>> ELSE Append(fields, val)
    ELSE IF s[i] \in Digits
         THEN IF digLen = 1 /\ val = 0 THEN <<>>
              ELSE IF val * 10 + HexVal(s[i]) > 255 THEN <<>>
              ELSE ParseIPv4Scan(s, i + 1, val * 10 + HexVal(s[i]), digLen + 1, fields)
         ELSE IF s[i] = "."
         THEN IF i = 1 \/ i = Len(s) \/ s[i-1] = "." THEN <<>>
              ELSE IF Len(fields) = 3 THEN <<>>
              ELSE ParseIPv4Scan(s, i + 1, 0, 0, Append(fields, val))
         ELSE <<>>

ParseIPv4Fields(s) == ParseIPv4Scan(s, 1, 0, 0, <<>>)

V4InV6Prefix == <<0,0,0,0,0,0,0,0,0,0,255,255>>

\* Length of the hex group that starts s, and its value (-1: too long or too big).
RECURSIVE HexGroup(_, _, _)
HexGroup(s, off, acc) ==
    IF off < Len(s) /\ HexVal(s[off + 1]) >= 0
    THEN IF off + 1 > 4 \/ acc * 16 + HexVal(s[off + 1]) > 65535
         THEN [off |-> off + 1, acc |-> -1]
         ELSE HexGroup(s, off + 1, acc * 16 + HexVal(s[off + 1]))
    ELSE [off |-> off, acc |-> acc]

Zeros(n) == [k \in 1..n |-> 0]

\* The final step of netip.parseIPv6: expand the ellipsis to 16 bytes.
ExpandEllipsis(s, ip, ellipsis) ==
    IF Len(s) # 0 THEN NilIP
    ELSE IF Len(ip) < 16
         THEN IF ellipsis < 0 THEN NilIP
              ELSE SubSeq(ip, 1, ellipsis) \o Zeros(16 - Len(ip))
                     \o SubSeq(ip, ellipsis + 1, Len(ip))
         ELSE IF ellipsis >= 0 THEN NilIP ELSE ip

\* The group loop of netip.parseIPv6; ip holds the bytes parsed so far.
RECURSIVE ParseIPv6Loop(_, _, _)
ParseIPv6Loop(s, ip, ellipsis) ==
    IF Len(ip) >= 16 THEN ExpandEllipsis(s, ip, ellipsis)
    ELSE LET g == HexGroup(s, 0, 0) IN
         IF g.acc < 0 \/ g.off = 0 THEN NilIP
         ELSE IF g.off < Len(s) /\ s[g.off + 1] = "."
         THEN IF (ellipsis < 0 /\ Len(ip) # 12) \/ Len(ip) + 4 > 16 THEN NilIP
              ELSE LET f == ParseIPv4Fields(s) IN
                   IF f = <<>> THEN NilIP
                   ELSE ExpandEllipsis(<<>>, ip \o f, ellipsis)
         ELSE LET ip2 == ip \o << g.acc \div 256, g.acc % 256 >>
                  s2  == SubSeq(s, g.off + 1, Len(s))
              IN  IF Len(s2) = 0 THEN ExpandEllipsis(s2, ip2, ellipsis)
                  ELSE IF s2[1] # ":" \/ Len(s2) = 1 THEN NilIP
                  ELSE LET s3 == SubSeq(s2, 2, Len(s2)) IN
                       IF s3[1] = ":"
                       THEN IF ellipsis >= 0 THEN NilIP
                            ELSE LET s4 == SubSeq(s3, 2, Len(s3)) IN
                                 IF Len(s4) = 0
                                 THEN ExpandEllipsis(s4, ip2, Len(ip2))
                                 ELSE ParseIPv6Loop(s4, ip2, Len(ip2))
                       ELSE ParseIPv6Loop(s3, ip2, ellipsis)

ParseIPv6(s) ==
    IF Len(s) >= 2 /\ s[1] = ":" /\ s[2] = ":"
    THEN IF Len(s) = 2 THEN Zeros(16)
         ELSE ParseIPv6Loop(SubSeq(s, 3, Len(s)), <<>>, 0)
    ELSE ParseIPv6Loop(s, <<>>, -1)

\* netip.ParseAddr as net.ParseIP uses it: a zone ("%") is never accepted.
ParseAddr(s) ==
    LET i == IndexOf(s, {".", ":", "%"}) IN
    IF i = 0 THEN NilIP
    ELSE IF s[i] = "."
         THEN LET f == ParseIPv4Fields(s) IN
              IF f = <<>> THEN NilIP ELSE V4InV6Prefix \o f
    ELSE IF s[i] = ":" /\ IndexOf(s, {"%"}) = 0 THEN ParseIPv6(s)
    ELSE NilIP

\* Every text the model's peers can send.
Texts == { S_v4a, S_v4b, S_v4lz, S_v4nl, S_v6a, S_v6full, S_v6b, S_mapped, S_text, S_empty }

\* net.ParseIP, evaluated once for each text.
ParseIPTable == [s \in Texts |-> ParseAddr(s)]
ParseIP(s) == ParseIPTable[s]

\* net.IP.To4: the 4-byte form, or nil when the address has none.
To4(ip) ==
    IF Len(ip) = 4 THEN ip
    ELSE IF Len(ip) = 16 /\ SubSeq(ip, 1, 12) = V4InV6Prefix THEN SubSeq(ip, 13, 16)
    ELSE NilIP

\* net.IP.Equal: an IPv4 address and its IPv6 form are the same address.
IPEqual(ip, x) ==
    IF Len(ip) = Len(x) THEN ip = x
    ELSE IF Len(ip) = 4 /\ Len(x) = 16
         THEN SubSeq(x, 1, 12) = V4InV6Prefix /\ ip = SubSeq(x, 13, 16)
    ELSE IF Len(ip) = 16 /\ Len(x) = 4
         THEN SubSeq(ip, 1, 12) = V4InV6Prefix /\ SubSeq(ip, 13, 16) = x
    ELSE FALSE


(***************************************************************************)
(* Bounds of the model.                                                    *)
(***************************************************************************)
\* Invocations of the program in one behaviour (cron re-invokes it).
MaxRuns == 2
\* Answers in one behaviour that depart from the peers' contract
\* (transport failure, unexpected status, unparsable body, changed address).
MaxFaults == 1

(***************************************************************************)
(* Configuration (DynDnsConfig) and the values the peers may hold.         *)
(***************************************************************************)
Variants    == {"main", "zones"}
TypeSet     == {"A", "AAAA"}
TTLs        == {0, 300}
ZoneNames   == {"example.de", "example.org"}
RecordNames == {"homelab", "nas"}
SourceOf(t) == IF t = "A" THEN "https://ipv4.seeip.org" ELSE "https://ipv6.seeip.org"

\* Zones map[string][]string of part_005; a record name may be listed twice.
ZoneConfigs ==
    { [z \in {"example.de"} |-> <<"homelab">>],
      [z \in {"example.de"} |-> <<"homelab", "nas">>],
      [z \in {"example.de"} |-> <<"homelab", "homelab">>],
      [z \in {"example.de", "example.org"} |-> <<"homelab">>] }
NoZones == [z \in {} |-> <<>>]

Configs(v) ==
    { [ RecordTTL  |-> ttl,
        ZoneName   |-> IF v = "main" THEN "example.de" ELSE "",
        RecordName |-> IF v = "main" THEN "homelab" ELSE "",
        Zones      |-> zs,
        A          |-> [Enabled |-> a,    Source |-> SourceOf("A")],
        AAAA       |-> [Enabled |-> aaaa, Source |-> SourceOf("AAAA")] ] :
      ttl \in TTLs, a \in BOOLEAN, aaaa \in BOOLEAN,
      zs \in IF v = "main" THEN {NoZones} ELSE ZoneConfigs }

\* What an IP source may answer with.
Bodies == {S_v4a, S_v4b, S_v6a, S_mapped, S_v4nl, S_text, S_empty}

\* Record sets the provider may hold for a (zone, name, type) before a run.
RecordSets(t) ==
    IF t = "A"
    THEN { <<>>, <<[value |-> S_v4a]>>, <<[value |-> S_v4b]>>,
           <<[value |-> S_v4lz]>>, <<[value |-> S_empty]>>,
           <<[value |-> S_v4b], [value |-> S_v4a]>> }
    ELSE { <<>>, <<[value |-> S_v6full]>>, <<[value |-> S_v6b]>> }

Triples == ZoneNames \X RecordNames \X TypeSet

(***************************************************************************)
(* HTTP.  A response is its status (0: the transport failed, no response)  *)
(* and its body: diagnostic text, the raw text of an IP source, or a JSON   *)
(* rrset document.                                                         *)
(***************************************************************************)
TextBody(t)    == [json |-> FALSE, text |-> t,  raw |-> <<>>, records |-> <<>>]
RawBody(s)     == [json |-> FALSE, text |-> "", raw |-> s,    records |-> <<>>]
RRSetBody(rs)  == [json |-> TRUE,  text |-> "", raw |-> <<>>, records |-> rs]
Response(s, b) == [status |-> s, body |-> b]
NoResponse     == Response(0, TextBody(""))

NoErr == [where |-> "", kind |-> "", status |-> 0, body |-> TextBody("")]

\* json.Marshal(rrSetPayload): name, type and ttl carry omitempty.
Marshal(p) ==
    LET keys == {"records"}
                \cup (IF p.Name # "" THEN {"name"} ELSE {})
                \cup (IF p.Type # "" THEN {"type"} ELSE {})
                \cup (IF p.TTL  # 0  THEN {"ttl"}  ELSE {})
    IN  [k \in keys |-> CASE k = "name" -> p.Name
                          [] k = "type" -> p.Type
                          [] k = "ttl"  -> p.TTL
                          [] OTHER      -> p.Records]
NoBody == [k \in {} |-> 0]

SourceURL(u)         == [kind |-> "source", source |-> u, zone |-> "", name |-> "", type |-> ""]
RRSetURL(z, n, t)    == [kind |-> "rrset", source |-> "", zone |-> z, name |-> n, type |-> t]
RRSetsURL(z)         == [kind |-> "rrsets", source |-> "", zone |-> z, name |-> "", type |-> ""]
SetRecordsURL(z,n,t) == [kind |-> "set_records", source |-> "", zone |-> z, name |-> n, type |-> t]

\* One entry of the request log: the request, and what came back.
Request(m, u, b, r) ==
    [method |-> m, url |-> u, body |-> b, status |-> r.status, response |-> r.body]

\* doAuthenticated after the exchange: the transport error, the unexpected
\* status with the response body, or the accepted status (and body).
DoAuthenticated(resp, expectedStatusCodes, readBody) ==
    IF resp.status = 0
    THEN [status |-> 0, body |-> TextBody(""),
          err |-> [where |-> "", kind |-> "network", status |-> 0, body |-> TextBody("")]]
    ELSE IF resp.status \notin expectedStatusCodes
    THEN [status |-> 0, body |-> TextBody(""),
          err |-> [where |-> "", kind |-> "provider", status |-> resp.status, body |-> resp.body]]
    ELSE [status |-> resp.status,
          body |-> IF readBody THEN resp.body ELSE TextBody(""),
          err |-> NoErr]

At(e, w) == [e EXCEPT !.where = w]

(***************************************************************************)
(* State.                                                                  *)
(***************************************************************************)
VARIABLES
    variant,     \* which program runs
    config,      \* *DynDnsConfig as decoded by readConfig
    run,         \* number of the current invocation
    pc,          \* "process", "read", "create", "update", "done", "failed"
    recordType,  \* the processRecord call main is at: "A", then "AAAA"
    ipString,    \* processRecord's ipString
    todoZones,   \* zones the range over config.Zones has not visited yet
    zoneName,    \* current zone of that range
    idx,         \* position in config.Zones[zoneName]
    calls,       \* HTTP requests this run has sent, in order, with the status
    err,         \* what log.Fatal reported, when pc = "failed"
    store,       \* the provider's record sets
    srcBody,     \* what each IP source currently answers
    faults,      \* contract departures so far
    perturbed,   \* whether this run met one
    prev         \* outcome of the previous run

vars == << variant, config, run, pc, recordType, ipString, todoZones, zoneName,
           idx, calls, err, store, srcBody, faults, perturbed, prev >>

Unknown     == [known |-> FALSE, exists |-> FALSE, records |-> <<>>]
Absent      == [known |-> TRUE,  exists |-> FALSE, records |-> <<>>]
Present(rs) == [known |-> TRUE,  exists |-> TRUE,  records |-> rs]

UnknownBody == [known |-> FALSE, body |-> <<>>]
KnownBody(b) == [known |-> TRUE, body |-> b]

RecordConfigOf(t) == IF t = "A" THEN config.A ELSE config.AAAA

Init ==
    /\ variant \in Variants
    /\ config \in Configs(variant)
    /\ run = 1
    /\ pc = "process"
    /\ recordType = "A"
    /\ ipString = <<>>
    /\ todoZones = {}
    /\ zoneName = ""
    /\ idx = 0
    /\ calls = <<>>
    /\ err = NoErr
    /\ store = [t \in Triples |-> Unknown]
    /\ srcBody = [t \in TypeSet |-> UnknownBody]
    /\ faults = 0
    /\ perturbed = FALSE
    /\ prev = [ok |-> FALSE, store |-> [t \in Triples |-> Unknown]]

(***************************************************************************)
(* The peers.  A record set or a source answer nobody has observed yet is  *)
(* fixed at its first observation; afterwards it changes only through the  *)
(* program's own requests (or, for the source, as a counted departure).    *)
(***************************************************************************)
Reveal(st, t) ==
    IF st.known THEN {st} ELSE {Absent} \cup {Present(rs) : rs \in RecordSets(t)}

\* GET /v1/zones/{zone}/rrsets/{name}/{type}
ProviderGet(st) ==
    IF st.exists THEN Response(200, RRSetBody(st.records))
    ELSE Response(404, TextBody("not_found"))

\* POST /v1/zones/{zone}/rrsets
ProviderCreate(st, body) ==
    IF st.exists THEN [resp |-> Response(409, TextBody("uniqueness_error")), st |-> st]
    ELSE [resp |-> Response(201, TextBody("")), st |-> Present(body["records"])]

\* POST /v1/zones/{zone}/rrsets/{name}/{type}/actions/set_records
ProviderSetRecords(st, body) ==
    IF st.exists THEN [resp |-> Response(201, TextBody("")), st |-> Present(body["records"])]
    ELSE [resp |-> Response(404, TextBody("not_found")), st |-> st]

GetFaults  == { NoResponse, Response(500, TextBody("internal_error")),
                Response(201, TextBody("")), Response(200, TextBody("<html>")) }
PostFaults == { NoResponse, Response(500, TextBody("internal_error")),
                Response(200, TextBody("ok")) }

MayFault == faults < MaxFaults

(***************************************************************************)
(* Control flow of main and of processRecord's loops.                      *)
(***************************************************************************)
\* processRecord returns to main.
Return ==
    /\ todoZones' = {} /\ zoneName' = "" /\ idx' = 0
    /\ IF recordType = "A"
       THEN pc' = "process" /\ recordType' = "AAAA"
       ELSE pc' = "done" /\ recordType' = recordType

\* Entering the range over config.Zones (Go visits the keys in any order).
EnterZones ==
    IF variant = "main"
    THEN pc' = "read" /\ UNCHANGED << recordType, todoZones, zoneName, idx >>
    ELSE IF DOMAIN config.Zones = {} THEN Return
    ELSE \E z \in DOMAIN config.Zones :
            /\ zoneName' = z /\ todoZones' = DOMAIN config.Zones \ {z}
            /\ idx' = 1 /\ pc' = "read" /\ UNCHANGED recordType

\* Mutant: processRecord returns after the first zone of the range.
NextTargetFirstZoneOnly ==
    IF variant = "zones" /\ idx < Len(config.Zones[zoneName])
    THEN idx' = idx + 1 /\ pc' = "read" /\ UNCHANGED << recordType, todoZones, zoneName >>
    ELSE Return

\* The current target is finished: next record name, next zone, or return.
NextTarget ==
    IF variant = "zones" /\ idx < Len(config.Zones[zoneName])
    THEN idx' = idx + 1 /\ pc' = "read" /\ UNCHANGED << recordType, todoZones, zoneName >>
    ELSE IF variant = "zones" /\ todoZones # {}
    THEN \E z \in todoZones :
            /\ zoneName' = z /\ todoZones' = todoZones \ {z}
            /\ idx' = 1 /\ pc' = "read" /\ UNCHANGED recordType
    ELSE Return

\* Mutant: the error is logged and processRecord returns; main goes on.
FatalReturns(e) == err' = e /\ Return

\* log.Fatal: the process exits.
Fatal(e) ==
    /\ pc' = "failed" /\ err' = e
    /\ UNCHANGED << recordType, todoZones, zoneName, idx >>

TargetZone == IF variant = "main" THEN config.ZoneName ELSE zoneName
TargetName == IF variant = "main" THEN config.RecordName ELSE config.Zones[zoneName][idx]
Target     == << TargetZone, TargetName, recordType >>

(***************************************************************************)
(* processRecord, step by step.                                            *)
(***************************************************************************)
\* Mutant: the Enabled flag is not consulted.
EnabledAlways(t) == TRUE

Enabled(t) == RecordConfigOf(t).Enabled

\* if !recordConfig.Enabled { return }
ProcessRecordDisabled ==
    /\ pc = "process"
    /\ ~Enabled(recordType)
    /\ Return
    /\ UNCHANGED << variant, config, run, ipString, calls, err, store, srcBody,
                    faults, perturbed, prev >>

\* Mutant: the nil check on the parsed address is missing.
InvalidIPFamilyOnly(t, s) == (t = "A") = (To4(ParseIP(s)) = NilIP)

\* Mutant: the family is checked for type A only.
InvalidIPOnlyA(t, s) == ParseIP(s) = NilIP \/ (t = "A" /\ To4(ParseIP(s)) = NilIP)

\* parsedIp == nil || ((recordType == "A") == (parsedIp.To4() == nil))
InvalidIP(t, s) ==
    LET parsedIp == ParseIP(s) IN
    parsedIp = NilIP \/ ((t = "A") = (To4(parsedIp) = NilIP))

\* getPublicIP and the validation of its result.
GetPublicIP ==
    /\ pc = "process"
    /\ Enabled(recordType)
    /\ \E ans \in [failed : BOOLEAN, body : Bodies] :
         LET cur     == srcBody[recordType]
             honest  == ~ans.failed /\ (cur.known => ans.body = cur.body)
         IN
         /\ ans.failed => ans.body = S_empty
         /\ honest \/ MayFault
         /\ faults' = IF honest THEN faults ELSE faults + 1
         /\ perturbed' = (perturbed \/ ~honest)
         /\ srcBody' = IF ans.failed THEN srcBody
                       ELSE [srcBody EXCEPT ![recordType] = KnownBody(ans.body)]
         /\ calls' = Append(calls, Request("GET", SourceURL(RecordConfigOf(recordType).Source),
                                           NoBody,
                                           IF ans.failed THEN NoResponse
                                           ELSE Response(200, RawBody(ans.body))))
         /\ IF ans.failed
            THEN /\ Fatal([where |-> "getPublicIP", kind |-> "network", status |-> 0,
                           body |-> TextBody("")])
                 /\ UNCHANGED ipString
            ELSE /\ ipString' = ans.body
                 /\ IF InvalidIP(recordType, ans.body)
                    THEN Fatal([where |-> "processRecord", kind |-> "validation",
                                status |-> 0, body |-> TextBody("")])
                    ELSE EnterZones /\ UNCHANGED err
    /\ UNCHANGED << variant, config, run, store, prev >>

\* Mutants: a wider list of expected status codes.
GetExpectedAny2xx  == {200, 201, 404}
PostExpectedAny2xx == {200, 201}

GetExpected  == {200, 404}
PostExpected == {201}

\* What the peer may answer: its contract's answer, or a counted departure.
Answers(contractResp, departures) ==
    {contractResp} \cup (IF MayFault THEN departures ELSE {})

\* The bookkeeping of one provider exchange.
Exchange(req, resp, contractResp, key, st) ==
    /\ calls' = Append(calls, req)
    /\ store' = [store EXCEPT ![key] = st]
    /\ faults' = IF resp = contractResp THEN faults ELSE faults + 1
    /\ perturbed' = (perturbed \/ resp # contractResp)

\* main.go processRecord: if checkRecordExists(...) { update } else { create }
DecideMain(statusCode) == IF statusCode = 200 THEN "update" ELSE "create"

\* main.go checkRecordExists, and the branch processRecord takes on its result.
CheckRecordExists ==
    /\ pc = "read"
    /\ variant = "main"
    /\ \E st \in Reveal(store[Target], recordType) :
       \E resp \in Answers(ProviderGet(st), GetFaults) :
         LET r == DoAuthenticated(resp, GetExpected, FALSE) IN
         /\ Exchange(Request("GET", RRSetURL(TargetZone, TargetName, recordType), NoBody, resp),
                     resp, ProviderGet(st), Target, st)
         /\ IF r.err # NoErr
            THEN Fatal(At(r.err, "checkRecordExists"))
            ELSE /\ pc' = DecideMain(r.status)
                 /\ UNCHANGED << recordType, todoZones, zoneName, idx, err >>
    /\ UNCHANGED << variant, config, run, ipString, srcBody, prev >>

\* Mutant: the record values are not found in the decoded response.
FirstValueNone(records) == S_empty

\* part_005 getCurrentRecord after a 200: the first record value, "" if none.
FirstValue(records) == IF Len(records) = 0 THEN S_empty ELSE records[1].value

\* Mutant: processRecord without the test for an empty current address.
DecideZonesNoEmptyCheck(currentAddress, ip) ==
    IF IPEqual(ParseIP(ip), ParseIP(currentAddress)) THEN "skip"
    ELSE "update"

\* Mutant: the texts are compared, not the addresses.
DecideZonesRawStrings(currentAddress, ip) ==
    IF currentAddress = S_empty THEN "create"
    ELSE IF ip = currentAddress THEN "skip"
    ELSE "update"

\* Mutant: the branches of the comparison are swapped.
DecideZonesSwapped(currentAddress, ip) ==
    IF currentAddress = S_empty THEN "create"
    ELSE IF IPEqual(ParseIP(ip), ParseIP(currentAddress)) THEN "update"
    ELSE "skip"

\* part_005 processRecord: create when there is no current address, skip when
\* it is the resolved address, update otherwise.
DecideZones(currentAddress, ip) ==
    IF currentAddress = S_empty THEN "create"
    ELSE IF IPEqual(ParseIP(ip), ParseIP(currentAddress)) THEN "skip"
    ELSE "update"

\* part_005 getCurrentRecord, and the branch processRecord takes on its result.
GetCurrentRecord ==
    /\ pc = "read"
    /\ variant = "zones"
    /\ \E st \in Reveal(store[Target], recordType) :
       \E resp \in Answers(ProviderGet(st), GetFaults) :
         LET r == DoAuthenticated(resp, GetExpected, TRUE)
             currentAddress == IF r.status = 404 THEN S_empty ELSE FirstValue(r.body.records)
             branch == DecideZones(currentAddress, ipString)
         IN
         /\ Exchange(Request("GET", RRSetURL(TargetZone, TargetName, recordType), NoBody, resp),
                     resp, ProviderGet(st), Target, st)
         /\ IF r.err # NoErr
            THEN Fatal(At(r.err, "getCurrentRecord"))
            ELSE IF r.status # 404 /\ ~r.body.json
            THEN Fatal([where |-> "getCurrentRecord", kind |-> "parse", status |-> 0,
                        body |-> r.body])
            ELSE IF branch = "skip"
            THEN NextTarget /\ UNCHANGED err
            ELSE /\ pc' = branch
                 /\ UNCHANGED << recordType, todoZones, zoneName, idx, err >>
    /\ UNCHANGED << variant, config, run, ipString, srcBody, prev >>

\* createRecord's rrSetPayload.
CreatePayload(name, t, ttl, publicIp) ==
    [Name |-> name, Type |-> t, TTL |-> ttl, Records |-> <<[value |-> publicIp]>>]

\* updateRecord's rrSetPayload: the records alone.
UpdatePayload(publicIp) ==
    [Name |-> "", Type |-> "", TTL |-> 0, Records |-> <<[value |-> publicIp]>>]

CreateRecord ==
    /\ pc = "create"
    /\ LET body == Marshal(CreatePayload(TargetName, recordType, config.RecordTTL, ipString)) IN
       \E st \in Reveal(store[Target], recordType) :
       \E resp \in Answers(ProviderCreate(st, body).resp, PostFaults) :
         LET honest == resp = ProviderCreate(st, body).resp
             r      == DoAuthenticated(resp, PostExpected, FALSE)
         IN
         /\ Exchange(Request("POST", RRSetsURL(TargetZone), body, resp),
                     resp, ProviderCreate(st, body).resp, Target,
                     IF honest THEN ProviderCreate(st, body).st ELSE st)
         /\ IF r.err # NoErr
            THEN Fatal(At(r.err, "createRecord"))
            ELSE NextTarget /\ UNCHANGED err
    /\ UNCHANGED << variant, config, run, ipString, srcBody, prev >>

UpdateRecord ==
    /\ pc = "update"
    /\ LET body == Marshal(UpdatePayload(ipString)) IN
       \E st \in Reveal(store[Target], recordType) :
       \E resp \in Answers(ProviderSetRecords(st, body).resp, PostFaults) :
         LET honest == resp = ProviderSetRecords(st, body).resp
             r      == DoAuthenticated(resp, PostExpected, FALSE)
         IN
         /\ Exchange(Request("POST", SetRecordsURL(TargetZone, TargetName, recordType), body, resp),
                     resp, ProviderSetRecords(st, body).resp, Target,
                     IF honest THEN ProviderSetRecords(st, body).st ELSE st)
         /\ IF r.err # NoErr
            THEN Fatal(At(r.err, "updateRecord"))
            ELSE NextTarget /\ UNCHANGED err
    /\ UNCHANGED << variant, config, run, ipString, srcBody, prev >>

\* The scheduler (cron) invokes the program again, with the same config file.
Rerun ==
    /\ pc \in {"done", "failed"}
    /\ run < MaxRuns
    /\ run' = run + 1
    /\ prev' = [ok |-> pc = "done", store |-> store]
    /\ pc' = "process" /\ recordType' = "A" /\ ipString' = <<>>
    /\ todoZones' = {} /\ zoneName' = "" /\ idx' = 0
    /\ calls' = <<>> /\ err' = NoErr /\ perturbed' = FALSE
    /\ UNCHANGED << variant, config, store, srcBody, faults >>

Next ==
    \/ ProcessRecordDisabled
    \/ GetPublicIP
    \/ CheckRecordExists
    \/ GetCurrentRecord
    \/ CreateRecord
    \/ UpdateRecord
    \/ Rerun

Spec == Init /\ [][Next]_vars

(***************************************************************************)
(* Reading the request log.                                                *)
(***************************************************************************)
IsSource(c) == c.url.kind = "source"
IsRead(c)   == c.url.kind = "rrset"
IsCreate(c) == c.url.kind = "rrsets"
IsUpdate(c) == c.url.kind = "set_records"
IsMutation(c) == IsCreate(c) \/ IsUpdate(c)

\* The record type a request is about.
TypeOf(c) ==
    IF IsSource(c) THEN (IF c.url.source = config.A.Source THEN "A" ELSE "AAAA")
    ELSE IF IsCreate(c) THEN c.body["type"]
    ELSE c.url.type

\* The address this run resolved for record type t.
Candidate(t) == srcBody[t].body

\* Request i is a read answered 200 with a record set whose first value
\* parses as an address.
ReadPresent(i) ==
    /\ IsRead(calls[i]) /\ calls[i].status = 200 /\ calls[i].response.json
    /\ Len(calls[i].response.records) > 0
    /\ ParseIP(calls[i].response.records[1].value) # NilIP

RemoteIP(i) == ParseIP(calls[i].response.records[1].value)

\* What the program does between read i and its next read: nothing yet,
\* nothing at all, or the one request that follows the read.
NoMutationAfter(i) ==
    /\ i = Len(calls) => pc \notin {"create", "update"}
    /\ i < Len(calls) => ~IsMutation(calls[i + 1])

OneMutationAfter(i, kind) ==
    /\ i = Len(calls) => pc = kind
    /\ i < Len(calls) =>
         /\ calls[i + 1].url.kind = (IF kind = "create" THEN "rrsets" ELSE "set_records")
         /\ calls[i + 1].url.zone = calls[i].url.zone
         /\ i + 1 < Len(calls) => ~IsMutation(calls[i + 2])

(***************************************************************************)
(* C1.  A read answered 404 is followed by exactly one createRecord for    *)
(* that record and by no updateRecord; the body of the create request      *)
(* carries the record's name, its type, a ttl equal to the configured TTL  *)
(* and the resolved address as its single value.                           *)
(* Fails: with RecordTTL = 0 the ttl is left out of the body (omitempty).  *)
(***************************************************************************)
C1_CreateCarries(i) ==
    LET b == calls[i + 1].body IN
    /\ DOMAIN b = {"name", "type", "ttl", "records"}
    /\ b["name"] = calls[i].url.name
    /\ b["type"] = calls[i].url.type
    /\ b["ttl"] = config.RecordTTL
    /\ b["records"] = << [value |-> Candidate(calls[i].url.type)] >>

C1_AbsentCreatesOnce ==
    \A i \in 1..Len(calls) :
        (IsRead(calls[i]) /\ calls[i].status = 404) =>
            /\ OneMutationAfter(i, "create")
            /\ i < Len(calls) => C1_CreateCarries(i)

\* For a configured TTL other than 0 the statement of C1 holds.
C1_HoldsForNonZeroTTL == config.RecordTTL # 0 => C1_AbsentCreatesOnce

(***************************************************************************)
(* C2.  A read answered with a present record whose value is a different   *)
(* address than the resolved one is followed by exactly one updateRecord   *)
(* for that record, carrying the resolved address as its single value, and *)
(* by no createRecord.                                                     *)
(***************************************************************************)
C2_StaleUpdatesOnce ==
    \A i \in 1..Len(calls) :
        (ReadPresent(i) /\ ~IPEqual(ParseIP(Candidate(calls[i].url.type)), RemoteIP(i))) =>
            /\ OneMutationAfter(i, "update")
            /\ i < Len(calls) =>
                 /\ calls[i + 1].url.name = calls[i].url.name
                 /\ calls[i + 1].url.type = calls[i].url.type
                 /\ calls[i + 1].body =
                      [k \in {"records"} |-> << [value |-> Candidate(calls[i].url.type)] >>]

C2_Witness ==
    /\ pc = "done"
    /\ \E i \in 1..(Len(calls) - 1) :
         /\ ReadPresent(i)
         /\ ~IPEqual(ParseIP(Candidate(calls[i].url.type)), RemoteIP(i))
         /\ IsUpdate(calls[i + 1]) /\ calls[i + 1].status = 201

(***************************************************************************)
(* C3.  A read answered with a present record whose value is the resolved  *)
(* address is followed by no createRecord and no updateRecord.             *)
(* Fails in main.go, which updates whenever the record exists.             *)
(***************************************************************************)
C3_UpToDateNoMutation ==
    \A i \in 1..Len(calls) :
        (ReadPresent(i) /\ IPEqual(ParseIP(Candidate(calls[i].url.type)), RemoteIP(i))) =>
            NoMutationAfter(i)

\* No provider request of this run is about record type t.
NoProviderCall(t) ==
    \A j \in 1..Len(calls) : ~IsSource(calls[j]) => TypeOf(calls[j]) # t

\* Request i is the last one, and the run ended on a validation error.
EndsInValidationError(i) ==
    /\ i = Len(calls)
    /\ pc = "failed"
    /\ err.kind = "validation"

(***************************************************************************)
(* C4.  When an IP source answers with text that does not parse as an IP   *)
(* address, the run fails with a validation error, and no provider request *)
(* (read, create, update) is made for that record type.                    *)
(***************************************************************************)
C4_UnparsableIPFails ==
    \A i \in 1..Len(calls) :
        (IsSource(calls[i]) /\ calls[i].status # 0
           /\ ParseIP(calls[i].response.raw) = NilIP) =>
            /\ EndsInValidationError(i)
            /\ NoProviderCall(TypeOf(calls[i]))

C4_Witness ==
    /\ Len(calls) > 1
    /\ IsSource(calls[Len(calls)])
    /\ calls[Len(calls)].response.raw \in {S_empty, S_text}
    /\ calls[Len(calls)].status = 200
    /\ pc = "failed"

(***************************************************************************)
(* C5.  When an IP source answers with a valid address of the wrong family *)
(* (for A: an address with no IPv4 form; for AAAA: an address that has an  *)
(* IPv4 form), the run fails with a validation error, and no provider      *)
(* request is made for that record type.                                   *)
(***************************************************************************)
WrongFamily(t, ip) ==
    \/ t = "A" /\ To4(ip) = NilIP
    \/ t = "AAAA" /\ To4(ip) # NilIP

C5_WrongFamilyFails ==
    \A i \in 1..Len(calls) :
        (IsSource(calls[i]) /\ calls[i].status # 0
           /\ ParseIP(calls[i].response.raw) # NilIP
           /\ WrongFamily(TypeOf(calls[i]), ParseIP(calls[i].response.raw))) =>
            /\ EndsInValidationError(i)
            /\ NoProviderCall(TypeOf(calls[i]))

C5_Witness ==
    /\ Len(calls) > 1
    /\ IsSource(calls[Len(calls)])
    /\ TypeOf(calls[Len(calls)]) = "AAAA"
    /\ calls[Len(calls)].response.raw = S_mapped
    /\ pc = "failed"

(***************************************************************************)
(* C6.  A record type whose configuration is not enabled is never touched: *)
(* the run sends no request to its IP source and no provider request about *)
(* it, whatever happens to the other record type.                          *)
(***************************************************************************)
C6_DisabledNeverTouched ==
    \A t \in TypeSet :
        ~RecordConfigOf(t).Enabled =>
            \A j \in 1..Len(calls) : TypeOf(calls[j]) # t

C6_Witness ==
    /\ pc = "done"
    /\ ~config.A.Enabled
    /\ config.AAAA.Enabled
    /\ \E j \in 1..Len(calls) : IsMutation(calls[j])

\* The run ended on request i, with a provider error that carries the
\* status and the body of the answer.
EndsInProviderError(i) ==
    /\ i = Len(calls)
    /\ pc = "failed"
    /\ err.kind = "provider"
    /\ err.status = calls[i].status
    /\ err.body = calls[i].response

(***************************************************************************)
(* C7.  When the provider answers a record read with a status other than   *)
(* 200 or 404, the run ends there with a provider error carrying that      *)
(* status and the response body; no create or update request follows.      *)
(***************************************************************************)
C7_ReadStatusAborts ==
    \A i \in 1..Len(calls) :
        (IsRead(calls[i]) /\ calls[i].status \notin {0, 200, 404}) =>
            EndsInProviderError(i)

C7_Witness ==
    /\ Len(calls) > 0
    /\ IsRead(calls[Len(calls)])
    /\ calls[Len(calls)].status = 500
    /\ err.body.text = "internal_error"
    /\ pc = "failed"

(***************************************************************************)
(* C8.  Fail-fast: once a step of a run has failed, that run sends no      *)
(* further request, for any remaining target or record type.               *)
(***************************************************************************)
C8_FailFast == [][(err # NoErr /\ run' = run) => calls' = calls]_vars

C8_Witness ==
    /\ pc = "failed"
    /\ recordType = "A"
    /\ config.AAAA.Enabled
    /\ variant = "zones" => todoZones # {}

(***************************************************************************)
(* C9.  A create or update request succeeds only when the provider answers *)
(* 201: after any other status the run ends there, with a provider error   *)
(* carrying the status and the response body.                              *)
(***************************************************************************)
C9_MutationNeeds201 ==
    \A i \in 1..Len(calls) :
        IsMutation(calls[i]) =>
            IF calls[i].status = 201
            THEN i = Len(calls) => pc # "failed"
            ELSE /\ i = Len(calls) /\ pc = "failed"
                 /\ calls[i].status # 0 => EndsInProviderError(i)

C9_Witness ==
    /\ Len(calls) > 0
    /\ IsMutation(calls[Len(calls)])
    /\ calls[Len(calls)].status = 200
    /\ err.status = 200
    /\ pc = "failed"

(***************************************************************************)
(* C10.  Re-running is safe: when a run has completed successfully and the *)
(* program runs again with the same configuration, while the IP sources    *)
(* answer as before and the provider answers from the record sets the      *)
(* first run left (perturbed = FALSE), the second run does not fail and    *)
(* ends with every record set exactly as the first run left it.            *)
(***************************************************************************)
C10_RerunIsSafe ==
    (run > 1 /\ prev.ok /\ ~perturbed) =>
        /\ pc # "failed"
        /\ pc = "done" => store = prev.store

C10_Witness ==
    /\ run > 1 /\ prev.ok /\ ~perturbed
    /\ pc = "done"
    /\ \E j \in 1..Len(calls) : IsRead(calls[j]) /\ calls[j].status = 200

(***************************************************************************)
(* C11.  The remote value and the resolved address are compared as parsed  *)
(* addresses, not as texts.                                                *)
(*                                                                         *)
(* As claimed: whenever the remote value and the resolved address denote   *)
(* the same address in different text (decimal octets with leading zeros,  *)
(* or IPv6 zero-compression), the record counts as up to date and no       *)
(* update is issued.  The statement is made of the program that compares   *)
(* (part_005); it fails there for leading zeros, which net.ParseIP         *)
(* rejects: the remote value "203.000.113.005" does not parse, so it is    *)
(* not equal to "203.0.113.5" and the record is updated.                   *)
(***************************************************************************)
\* The text with the leading zeros of its decimal octets removed.
RECURSIVE StripZeros(_, _, _)
StripZeros(s, i, atStart) ==
    IF i > Len(s) THEN <<>>
    ELSE IF atStart /\ s[i] = "0" /\ i < Len(s) /\ s[i + 1] \in Digits
    THEN StripZeros(s, i + 1, TRUE)
    ELSE << s[i] >> \o StripZeros(s, i + 1, s[i] = ".")

\* The address a text denotes when decimal octets may carry leading zeros.
DenotesTable ==
    [s \in Texts |-> IF IndexOf(s, {":"}) # 0 THEN ParseAddr(s)
                     ELSE ParseAddr(StripZeros(s, 1, TRUE))]
Denotes(s) == DenotesTable[s]

\* Request i is a read answered 200 with a record set that has a first value.
ReadValue(i) ==
    /\ IsRead(calls[i]) /\ calls[i].status = 200 /\ calls[i].response.json
    /\ Len(calls[i].response.records) > 0

RemoteText(i) == calls[i].response.records[1].value

C11_SameAddressAnyText ==
    variant = "zones" =>
        \A i \in 1..Len(calls) :
            (/\ ReadValue(i)
             /\ Denotes(RemoteText(i)) # NilIP
             /\ IPEqual(Denotes(Candidate(calls[i].url.type)), Denotes(RemoteText(i)))) =>
                NoMutationAfter(i)

(***************************************************************************)
(* C11 as amended.  In the program that compares (part_005), a remote      *)
(* value is up to date exactly when net.ParseIP accepts it and net.IP.Equal*)
(* finds it equal to the resolved address, whatever the two texts: then no *)
(* create and no update follows.  A non-empty remote value that is another *)
(* address, or that net.ParseIP rejects (leading zeros included), is       *)
(* followed by exactly one update.                                         *)
(***************************************************************************)
C11_ParsedEquality ==
    variant = "zones" =>
        \A i \in 1..Len(calls) :
            (ReadValue(i) /\ RemoteText(i) # S_empty) =>
                IF /\ ParseIP(RemoteText(i)) # NilIP
                   /\ IPEqual(ParseIP(Candidate(calls[i].url.type)), ParseIP(RemoteText(i)))
                THEN NoMutationAfter(i)
                ELSE OneMutationAfter(i, "update")

\* A run that skipped a record whose text differs from the resolved text,
\* and updated one whose value carries leading zeros.
C11_Witness ==
    /\ variant = "zones"
    /\ pc = "done"
    /\ \E i \in 1..Len(calls) :
         /\ ReadValue(i)
         /\ RemoteText(i) # Candidate(calls[i].url.type)
         /\ IPEqual(ParseIP(Candidate(calls[i].url.type)), ParseIP(RemoteText(i)))
         /\ NoMutationAfter(i)
    /\ \E i \in 1..(Len(calls) - 1) :
         /\ ReadValue(i)
         /\ RemoteText(i) = S_v4lz
         /\ IsUpdate(calls[i + 1])

(***************************************************************************)
(* C12.  Sequential reconciliation of the targets.                         *)
(***************************************************************************)
\* How often (zone z, record name n) is configured as a target.
Occurrences(z, n) ==
    IF variant = "main"
    THEN (IF z = config.ZoneName /\ n = config.RecordName THEN 1 ELSE 0)
    ELSE IF z \in DOMAIN config.Zones
         THEN Cardinality({k \in 1..Len(config.Zones[z]) : config.Zones[z][k] = n})
         ELSE 0

\* The provider reads of this run for (z, n, t).
ReadsFor(z, n, t) ==
    Cardinality({i \in 1..Len(calls) :
        IsRead(calls[i]) /\ calls[i].url.zone = z /\ calls[i].url.name = n
                         /\ calls[i].url.type = t})

\* The (zone, record name, record type) a provider request is addressed to.
TripleOf(c) ==
    IF IsCreate(c) THEN << c.url.zone, c.body["name"], c.body["type"] >>
    ELSE << c.url.zone, c.url.name, c.url.type >>

\* Every mutation directly follows the read of its own triple: at most one
\* mutation per read, after it, and before the read of any other triple.
MutationsFollowTheirRead ==
    \A j \in 1..Len(calls) :
        IsMutation(calls[j]) =>
            /\ j > 1
            /\ IsRead(calls[j - 1])
            /\ TripleOf(calls[j - 1]) = TripleOf(calls[j])

\* Every request about type A precedes every request about type AAAA.
TypeABeforeAAAA ==
    \A i \in 1..Len(calls) : \A j \in (i + 1)..Len(calls) :
        TypeOf(calls[i]) = "AAAA" => TypeOf(calls[j]) = "AAAA"

(***************************************************************************)
(* C12 as claimed.  In a run without failure, every configured triple of   *)
(* an enabled type is read exactly once; every mutation directly follows   *)
(* the read of its own triple; type A is completed before AAAA starts.     *)
(* Fails: a record name listed twice under a zone is read twice.           *)
(***************************************************************************)
C12_OneReadPerTriple ==
    pc = "done" =>
        /\ \A t \in TypeSet : \A z \in ZoneNames : \A n \in RecordNames :
             (RecordConfigOf(t).Enabled /\ Occurrences(z, n) > 0) => ReadsFor(z, n, t) = 1
        /\ MutationsFollowTheirRead
        /\ TypeABeforeAAAA

(***************************************************************************)
(* C12 as amended.  In a run without failure, every triple is read once    *)
(* for each time its target is listed in the configuration (never for a    *)
(* disabled type or an unlisted target); every mutation directly follows   *)
(* the read of its own triple, so there is at most one per read and the    *)
(* requests of different targets never interleave; type A is completed     *)
(* before AAAA starts.                                                     *)
(***************************************************************************)
C12_OneReadPerListedTarget ==
    pc = "done" =>
        /\ \A t \in TypeSet : \A z \in ZoneNames : \A n \in RecordNames :
             ReadsFor(z, n, t) = (IF RecordConfigOf(t).Enabled THEN Occurrences(z, n) ELSE 0)
        /\ MutationsFollowTheirRead
        /\ TypeABeforeAAAA

\* A run over two zones and both types, with a mutation for each type.
C12_Witness ==
    /\ pc = "done"
    /\ variant = "zones"
    /\ Cardinality(DOMAIN config.Zones) = 2
    /\ config.A.Enabled /\ config.AAAA.Enabled
    /\ \E i \in 1..Len(calls) : IsMutation(calls[i]) /\ TypeOf(calls[i]) = "A"
    /\ \E i \in 1..Len(calls) : IsMutation(calls[i]) /\ TypeOf(calls[i]) = "AAAA"

(***************************************************************************)
(* C13.  A record set without a usable first value.                        *)
(***************************************************************************)
\* Read i was answered 200 with a record set that has no record value, or
\* whose first value is the empty string.
ReadEmpty(i) ==
    /\ IsRead(calls[i]) /\ calls[i].status = 200 /\ calls[i].response.json
    /\ \/ Len(calls[i].response.records) = 0
       \/ calls[i].response.records[1].value = S_empty

(***************************************************************************)
(* C13.  In the program with getCurrentRecord, a read answered 200 with a  *)
(* record set of zero values, or whose first value is the empty string, is *)
(* handled as an absent record: the one request that follows is a          *)
(* createRecord for the same zone, record name and type, carrying the      *)
(* candidate address; no updateRecord is issued for it.                    *)
(***************************************************************************)
C13_EmptyRecordSetCreates ==
    variant = "zones" =>
        \A i \in 1..Len(calls) :
            ReadEmpty(i) =>
                /\ OneMutationAfter(i, "create")
                /\ i < Len(calls) =>
                     /\ IsCreate(calls[i + 1])
                     /\ TripleOf(calls[i + 1]) = TripleOf(calls[i])
                     /\ calls[i + 1].body["records"] = << [value |-> Candidate(calls[i].url.type)] >>

\* The record set exists at the provider, its read came back empty, and the
\* createRecord that followed was refused with 409.
C13_Witness ==
    /\ variant = "zones"
    /\ pc = "failed"
    /\ \E i \in 1..(Len(calls) - 1) :
          /\ ReadEmpty(i)
          /\ IsCreate(calls[i + 1])
          /\ calls[i + 1].status = 409

====
